---- MODULE Spec2Model ----
(***************************************************************************)
(* Model of sedbuilder: the typed client of the SSDC SED Builder service.  *)
(*                                                                         *)
(* The state is one client session: the JSON document the service (or the  *)
(* file on disk) holds, the Response object the client has built from it,  *)
(* and the observable outcome of the last call (what it returned or        *)
(* raised, how many HTTP requests it issued, whether it started the table  *)
(* projection).  One action per public operation.                          *)
(*                                                                         *)
(* Floats are modelled as integers: frequencies, fluxes, times, radii and  *)
(* degrees in whole units, z and ul_cl in hundredths.  A JSON / Python     *)
(* value is a tagged record so that a wrong type, a null, an absent key    *)
(* and the special floats can all be fed to the validators.                *)
(***************************************************************************)
EXTENDS Integers, Sequences, FiniteSets

VARIABLES doc, response, call, raised, returned, requests, astropyCalls, tables

vars == <<doc, response, call, raised, returned, requests, astropyCalls, tables>>

----------------------------------------------------------------------------
(* Values                                                                  *)

Absent == [k |-> "absent", n |-> 0, s |-> ""]
Null   == [k |-> "null", n |-> 0, s |-> ""]
NaN    == [k |-> "nan", n |-> 0, s |-> ""]
PosInf == [k |-> "inf", n |-> 0, s |-> ""]
NegInf == [k |-> "ninf", n |-> 0, s |-> ""]
Num(i) == [k |-> "num", n |-> i, s |-> ""]
Str(t) == [k |-> "str", n |-> 0, s |-> t]
Bool(b) == [k |-> "bool", n |-> IF b THEN 1 ELSE 0, s |-> ""]

\* pydantic float: a number (NaN and the infinities included; allow_inf_nan
\* is left at its default).  Strings here never spell a number.
IsFloat(v) == v.k \in {"num", "nan", "inf", "ninf"}
IsStr(v) == v.k = "str"

\* Field(gt=, ge=, lt=, le=): IEEE comparisons, all false on NaN.
Gt(v, b) == v.k = "inf" \/ (v.k = "num" /\ v.n > b)
Ge(v, b) == v.k = "inf" \/ (v.k = "num" /\ v.n >= b)
Lt(v, b) == v.k = "ninf" \/ (v.k = "num" /\ v.n < b)
Le(v, b) == v.k = "ninf" \/ (v.k = "num" /\ v.n <= b)

\* Optional[float] with default None and ge=0.0
OptFloatGe0(v) == v.k \in {"absent", "null"} \/ (IsFloat(v) /\ Ge(v, 0))
\* Optional[str]
OptStr(v) == v.k \in {"absent", "null", "str"}
\* the value a field takes when its key is absent
WithDefault(v, d) == IF v.k = "absent" THEN d ELSE v

----------------------------------------------------------------------------
(* Outcomes of a call                                                      *)

\* APIPaths.GET_DATA(ra=ra, dec=dec): <base>/getData?ra=<ra>&dec=<dec>
GET_DATA(ra, dec) == [path |-> "getData", ra |-> ra, dec |-> dec]
NoUrl == GET_DATA(Absent, Absent)

\* an exception: its class, its message, and the status code or URL it carries
RaiseWith(exc, about, code, url) ==
    [kind |-> "raise", exc |-> exc, about |-> about, code |-> code, url |-> url]
Raise(exc, about) == RaiseWith(exc, about, 0, NoUrl)
NoRaise == Raise("none", "")
Nothing == [kind |-> "none"]
IsRaise(x) == x.kind = "raise"

----------------------------------------------------------------------------
(* Record schema                                                           *)

DataFields == <<"Frequency", "Nufnu", "FrequencyError", "NufnuError", "Name",
                "AngularDistance", "StartTime", "StopTime", "Info">>

\* SourceData(**row) validates
SourceDataValid(row) ==
    /\ IsFloat(row.Frequency) /\ Gt(row.Frequency, 0)
    /\ IsFloat(row.Nufnu)
    /\ IsFloat(row.FrequencyError) /\ Ge(row.FrequencyError, 0)
    /\ IsFloat(row.NufnuError)
    /\ OptStr(row.Name)
    /\ OptFloatGe0(row.AngularDistance)
    /\ OptFloatGe0(row.StartTime)
    /\ OptFloatGe0(row.StopTime)
    /\ OptStr(row.Info)

\* the SourceData instance built from a valid row (unknown keys are ignored)
SourceData(row) ==
    [cls |-> "SourceData",
     Frequency |-> row.Frequency,
     Nufnu |-> row.Nufnu,
     FrequencyError |-> row.FrequencyError,
     NufnuError |-> row.NufnuError,
     Name |-> WithDefault(row.Name, Str("")),
     AngularDistance |-> WithDefault(row.AngularDistance, Null),
     StartTime |-> WithDefault(row.StartTime, Null),
     StopTime |-> WithDefault(row.StopTime, Null),
     Info |-> WithDefault(row.Info, Str(""))]

\* UpperLimits(**row) validates: Info is a str with default=None, so the key
\* may be missing (the default is not validated); every other key is ignored.
UpperLimitsValid(row) == row.Info.k \in {"absent", "str"}

UpperLimits(row) ==
    [cls |-> "UpperLimits",
     Frequency |-> Absent,
     Nufnu |-> Absent,
     FrequencyError |-> Absent,
     NufnuError |-> Absent,
     Name |-> Absent,
     AngularDistance |-> Absent,
     StartTime |-> Absent,
     StopTime |-> Absent,
     Info |-> WithDefault(row.Info, Null)]

InvalidRow == [UpperLimits([Info |-> Absent]) EXCEPT !.cls = "invalid"]

\* list[SourceData | UpperLimits]: the union takes SourceData when the row
\* validates as one, else UpperLimits when it validates as one, else fails.
ResolveRow(row) ==
    IF SourceDataValid(row) THEN SourceData(row)
    ELSE IF UpperLimitsValid(row) THEN UpperLimits(row)
    ELSE InvalidRow

CatalogValid(c) ==
    /\ IsStr(c.CatalogName)
    /\ IsFloat(c.ErrorRadius) /\ Ge(c.ErrorRadius, 0)

CatalogEntryValid(e) ==
    /\ CatalogValid(e.Catalog)
    /\ \A i \in 1..Len(e.SourceData) : ResolveRow(e.SourceData[i]).cls # "invalid"

CatalogEntry(e) ==
    [Catalog |-> e.Catalog,
     SourceData |-> [i \in 1..Len(e.SourceData) |-> ResolveRow(e.SourceData[i])]]

ResponseInfoValid(ri) == IsStr(ri.statusCode) /\ OptStr(ri.message)

PropertiesValid(p) == IsFloat(p.Nh) /\ Ge(p.Nh, 0)

\* Response(**d) / Response.model_validate_json(text) validates
ResponseValid(d) ==
    /\ ResponseInfoValid(d.ResponseInfo)
    /\ PropertiesValid(d.Properties)
    /\ \A i \in 1..Len(d.Catalogs) : CatalogEntryValid(d.Catalogs[i])

Response(d) ==
    [ResponseInfo |-> [statusCode |-> d.ResponseInfo.statusCode,
                       message |-> WithDefault(d.ResponseInfo.message, Null)],
     Properties |-> d.Properties,
     Catalogs |-> [i \in 1..Len(d.Catalogs) |-> CatalogEntry(d.Catalogs[i])]]

\* faulty variant: the status code compared without regard to case
is_successful_anycase(r) == r.ResponseInfo.statusCode \in {Str("OK"), Str("ok")}

\* Response.is_successful
is_successful(r) == r.ResponseInfo.statusCode = Str("OK")

\* BaseModel.model_dump() of a row: the fields of its own class
row_dump(row) ==
    IF row.cls = "SourceData"
    THEN [f \in {DataFields[k] : k \in 1..Len(DataFields)} |-> row[f]]
    ELSE [Info |-> row.Info]

\* Response.model_dump(): new dicts and lists down to the leaves
model_dump(r) ==
    [ResponseInfo |-> r.ResponseInfo,
     Properties |-> r.Properties,
     Catalogs |-> [i \in 1..Len(r.Catalogs) |->
        [Catalog |-> r.Catalogs[i].Catalog,
         SourceData |-> [j \in 1..Len(r.Catalogs[i].SourceData) |->
                            row_dump(r.Catalogs[i].SourceData[j])]]]]

\* Response.to_dict
to_dict(r) == [kind |-> "dict", value |-> model_dump(r)]

\* json.dumps of a leaf: None is written null, the special floats NaN,
\* Infinity and -Infinity (allow_nan is left at its default)
json_leaf(v) ==
    CASE v.k = "null" -> [json |-> "null", n |-> 0, s |-> ""]
      [] v.k = "nan" -> [json |-> "NaN", n |-> 0, s |-> ""]
      [] v.k = "inf" -> [json |-> "Infinity", n |-> 0, s |-> ""]
      [] v.k = "ninf" -> [json |-> "-Infinity", n |-> 0, s |-> ""]
      [] v.k = "str" -> [json |-> "string", n |-> 0, s |-> v.s]
      [] OTHER -> [json |-> "number", n |-> v.n, s |-> ""]

json_object(d) == [f \in DOMAIN d |-> json_leaf(d[f])]

\* json.dumps(self.model_dump())
json_dumps(d) ==
    [ResponseInfo |-> json_object(d.ResponseInfo),
     Properties |-> json_object(d.Properties),
     Catalogs |-> [i \in 1..Len(d.Catalogs) |->
        [Catalog |-> json_object(d.Catalogs[i].Catalog),
         SourceData |-> [j \in 1..Len(d.Catalogs[i].SourceData) |->
                            json_object(d.Catalogs[i].SourceData[j])]]]]

\* Response.to_json
to_json(r) == [kind |-> "str", value |-> json_dumps(model_dump(r))]

\* faulty variant: a projection that pops the catalogs it walks
ProjectedConsumed(r) == [r EXCEPT !.Catalogs = <<>>]

\* the Response after a projection ran: is_successful, to_dict, to_json,
\* to_astropy and to_jetset assign neither to self nor to any of its fields
Projected(r) == r

----------------------------------------------------------------------------
(* Unit / column registry                                                  *)

Column(name, dtype, units) == [name |-> name, dtype |-> dtype, units |-> units]

NAME             == Column("Name", "str", "")
FREQUENCY        == Column("Frequency", "float64", "Hz")
NUFNU            == Column("Nufnu", "float64", "erg / (cm2 s)")
FREQUENCY_ERROR  == Column("FrequencyError", "float64", "Hz")
NUFNU_ERROR      == Column("NufnuError", "float64", "erg / (cm2 s)")
ANGULAR_DISTANCE == Column("AngularDistance", "float64", "arcsec")
START_TIME       == Column("StartTime", "float64", "d")
STOP_TIME        == Column("StopTime", "float64", "d")
INFO             == Column("Info", "str", "")
CATALOG          == Column("CatalogName", "str", "")
ERROR_RADIUS     == Column("ErrorRadius", "float64", "arcsec")
METADATA_NH      == [name |-> "Nh", units |-> "1 / cm2"]

\* AstropySchema.columns(kind)
columns(kind) ==
    (IF kind \in {"all", "data"}
       THEN <<NAME, FREQUENCY, NUFNU, FREQUENCY_ERROR, NUFNU_ERROR,
              ANGULAR_DISTANCE, START_TIME, STOP_TIME, INFO>>
       ELSE <<>>)
    \o
    (IF kind \in {"all", "catalog"} THEN <<CATALOG, ERROR_RADIUS>> ELSE <<>>)

\* AstropySchema.metadata()
metadata == <<METADATA_NH>>

----------------------------------------------------------------------------
(* Table projector                                                         *)

\* what a column of the given dtype stores for a dumped value: None becomes
\* NaN in a float64 column and the text "None" in a str column
ToCell(dtype, v) ==
    IF dtype = "float64"
      THEN (IF v.k = "null" THEN NaN ELSE v)
      ELSE (IF v.k = "null" THEN Str("None") ELSE v)

\* astropy Table(list_of_dicts, names=, dtype=, units=): the columns are the
\* names in the order given, each filled from the dicts by key.  An empty
\* list is not a list of dicts: it is read as a list of zero columns, which
\* does not match the names, and the constructor raises ValueError.
Table(data, cols) ==
    IF data = <<>>
      THEN Raise("ValueError", "names and dtype must match number of columns")
      ELSE [kind |-> "Table",
            colnames |-> [c \in 1..Len(cols) |-> cols[c].name],
            dtypes |-> [c \in 1..Len(cols) |-> cols[c].dtype],
            units |-> [c \in 1..Len(cols) |-> cols[c].units],
            rows |-> [i \in 1..Len(data) |->
                        [c \in 1..Len(cols) |-> ToCell(cols[c].dtype, data[i][cols[c].name])]],
            meta |-> <<>>]

\* astropy hstack of two tables of equal length with disjoint column names
hstack(t1, t2) ==
    [kind |-> "Table",
     colnames |-> t1.colnames \o t2.colnames,
     dtypes |-> t1.dtypes \o t2.dtypes,
     units |-> t1.units \o t2.units,
     rows |-> [i \in 1..Len(t1.rows) |-> t1.rows[i] \o t2.rows[i]],
     meta |-> <<>>]

IsSourceData(sd) == sd.cls = "SourceData"

\* rows_data after the two loops of to_astropy: the SourceData instances, in
\* catalog order and in row order within a catalog
RECURSIVE rows_data(_)
rows_data(catalogs) ==
    IF catalogs = <<>> THEN <<>>
    ELSE SelectSeq(Head(catalogs).SourceData, IsSourceData) \o rows_data(Tail(catalogs))

\* the catalog dump appended for one kept row of the catalog entry
catalog_dump(catalog_entry) == catalog_entry.Catalog

\* faulty variant: the catalog dump taken once, after the loop over the catalogs
rows_catalog_stale(catalogs) ==
    [k \in 1..Len(rows_data(catalogs)) |-> catalog_dump(catalogs[Len(catalogs)])]

\* rows_catalog after the two loops: one catalog dump per kept row
RECURSIVE rows_catalog(_)
rows_catalog(catalogs) ==
    IF catalogs = <<>> THEN <<>>
    ELSE [k \in 1..Len(SelectSeq(Head(catalogs).SourceData, IsSourceData)) |->
            catalog_dump(Head(catalogs))]
         \o rows_catalog(Tail(catalogs))

\* table.meta[m.name] = getattr(self.Properties, m.name) * m.units
TableMeta(r) ==
    [m \in 1..Len(metadata) |->
        [key |-> metadata[m].name, value |-> r.Properties[metadata[m].name],
         unit |-> metadata[m].units]]

\* Response.to_astropy: a Table, or the exception a Table constructor raised
to_astropy(r) ==
    LET table_data == Table(rows_data(r.Catalogs), columns("data"))
        table_catalog == Table(rows_catalog(r.Catalogs), columns("catalog"))
    IN  IF IsRaise(table_data) THEN table_data
        ELSE IF IsRaise(table_catalog) THEN table_catalog
        ELSE [hstack(table_data, table_catalog) EXCEPT !.meta = TableMeta(r)]

----------------------------------------------------------------------------
(* Domain-format adapter                                                   *)

\* validate_call on to_jetset: z and ul_cl are floats in [0.0, 1.0] (here in
\* hundredths), restframe and data_scale are Literals, obj_name is a str
\* faulty variant: z bounded by lt=1.0 instead of le=1.0
ZValidExclusive(z) == IsFloat(z) /\ Ge(z, 0) /\ Lt(z, 100)

ZValid(z) == IsFloat(z) /\ Ge(z, 0) /\ Le(z, 100)
UlClValid(ul_cl) == IsFloat(ul_cl) /\ Ge(ul_cl, 0) /\ Le(ul_cl, 100)
\* faulty variant: restframe declared as a plain str
RestframeValidAnyStr(restframe) == IsStr(restframe)

RestframeValid(restframe) == restframe \in {Str("obs"), Str("src")}
DataScaleValid(data_scale) == data_scale \in {Str("lin-lin"), Str("log-log")}
ObjNameValid(obj_name) == IsStr(obj_name)

JetsetArgsValid(a) ==
    /\ ZValid(a.z)
    /\ UlClValid(a.ul_cl)
    /\ RestframeValid(a.restframe)
    /\ DataScaleValid(a.data_scale)
    /\ ObjNameValid(a.obj_name)

\* the arguments as bound by the signature: an omitted argument takes its
\* default (z has none)
BindJetset(a) ==
    [z |-> a.z,
     ul_cl |-> WithDefault(a.ul_cl, Num(95)),
     restframe |-> WithDefault(a.restframe, Str("obs")),
     data_scale |-> WithDefault(a.data_scale, Str("lin-lin")),
     obj_name |-> WithDefault(a.obj_name, Str("new-src"))]

\* index of a column of a table
ColIndex(t, name) == CHOOSE c \in 1..Len(t.colnames) : t.colnames[c] = name

\* the largest and the smallest finite float64
FloatMax == [k |-> "fmax", n |-> 0, s |-> ""]
FloatMin == [k |-> "fmin", n |-> 0, s |-> ""]

\* np.nan_to_num(x, nan=0.0): NaN becomes 0.0 and, posinf and neginf being
\* left at None, the infinities become the largest and smallest finite floats
nan_to_num(v) ==
    CASE v.k = "nan" -> Num(0)
      [] v.k = "inf" -> FloatMax
      [] v.k = "ninf" -> FloatMin
      [] OTHER -> v

\* t[name].astype(dtype) added under a new name: the Column keeps its unit
RenamedColumn(t, name, newname) ==
    [name |-> newname, dtype |-> t.dtypes[ColIndex(t, name)],
     units |-> t.units[ColIndex(t, name)],
     cells |-> [i \in 1..Len(t.rows) |-> t.rows[i][ColIndex(t, name)]]]

\* np.nan_to_num(t[name].value, nan=0.0): .value is the bare array, so the
\* new column has no unit
TimeColumn(t, name, newname) ==
    [name |-> newname, dtype |-> "float64", units |-> "",
     cells |-> [i \in 1..Len(t.rows) |-> nan_to_num(t.rows[i][ColIndex(t, name)])]]

\* faulty variant: the flag inferred from the Info text
ULColumnFromInfo(t) ==
    [name |-> "UL", dtype |-> "bool", units |-> "",
     cells |-> [i \in 1..Len(t.rows) |->
                  Bool(t.rows[i][ColIndex(t, INFO.name)] = Str("Upper Limit"))]]

\* np.zeros(len(t), dtype=bool)
ULColumn(t) ==
    [name |-> "UL", dtype |-> "bool", units |-> "",
     cells |-> [i \in 1..Len(t.rows) |-> Bool(FALSE)]]

JetsetColumns(t) ==
    <<RenamedColumn(t, FREQUENCY.name, "x"),
      RenamedColumn(t, FREQUENCY_ERROR.name, "dx"),
      RenamedColumn(t, NUFNU.name, "y"),
      RenamedColumn(t, NUFNU_ERROR.name, "dy"),
      TimeColumn(t, START_TIME.name, "T_start"),
      TimeColumn(t, STOP_TIME.name, "T_stop"),
      ULColumn(t),
      RenamedColumn(t, CATALOG.name, "dataset")>>

JetsetMeta(a) ==
    <<[key |-> "z", value |-> a.z, unit |-> ""],
      [key |-> "UL_CL", value |-> a.ul_cl, unit |-> ""],
      [key |-> "restframe", value |-> a.restframe, unit |-> ""],
      [key |-> "data_scale", value |-> a.data_scale, unit |-> ""],
      [key |-> "obj_name", value |-> a.obj_name, unit |-> ""]>>

\* the body of to_jetset, entered only with validated arguments
JetsetTable(t, a) ==
    LET cols == JetsetColumns(t)
    IN  [kind |-> "Table",
         colnames |-> [c \in 1..Len(cols) |-> cols[c].name],
         dtypes |-> [c \in 1..Len(cols) |-> cols[c].dtype],
         units |-> [c \in 1..Len(cols) |-> cols[c].units],
         rows |-> [i \in 1..Len(t.rows) |-> [c \in 1..Len(cols) |-> cols[c].cells[i]]],
         meta |-> JetsetMeta(a)]

\* Response.to_jetset: the table, or what was raised
to_jetset(r, a) ==
    IF ~JetsetArgsValid(BindJetset(a)) THEN Raise("ValidationError", "to_jetset arguments")
    ELSE LET t == to_astropy(r)
         IN  IF IsRaise(t) THEN t ELSE JetsetTable(t, BindJetset(a))

\* how many times to_jetset enters to_astropy
JetsetAstropyCalls(a) == IF JetsetArgsValid(BindJetset(a)) THEN 1 ELSE 0

----------------------------------------------------------------------------
(* Transport shim and loaders                                              *)

\* validate_call on get_data: ra in [0, 360), dec in [-90, 90], timeout > 0
\* faulty variant: ra bounded by le=360.0 instead of lt=360.0
RaValidInclusive(ra) == IsFloat(ra) /\ Ge(ra, 0) /\ Le(ra, 360)

RaValid(ra) == IsFloat(ra) /\ Ge(ra, 0) /\ Lt(ra, 360)
DecValid(dec) == IsFloat(dec) /\ Ge(dec, -90) /\ Le(dec, 90)
TimeoutValid(timeout) == IsFloat(timeout) /\ Gt(timeout, 0)

GetDataArgsValid(a) == RaValid(a.ra) /\ DecValid(a.dec) /\ TimeoutValid(a.timeout)

\* the httpx exception classes and their base classes
Bases(exc) ==
    CASE exc = "ReadTimeout" ->
           {"ReadTimeout", "TimeoutException", "TransportError", "RequestError", "HTTPError"}
      [] exc = "ConnectTimeout" ->
           {"ConnectTimeout", "TimeoutException", "TransportError", "RequestError", "HTTPError"}
      [] exc = "ConnectError" ->
           {"ConnectError", "NetworkError", "TransportError", "RequestError", "HTTPError"}
      [] exc = "HTTPStatusError" -> {"HTTPStatusError", "HTTPError"}
      [] OTHER -> {}

\* what httpx.get(...) followed by r.raise_for_status() raises for a transport
\* event: the event's own failure, or HTTPStatusError on a non-2xx status
HttpRaises(ev) ==
    IF ev.fail # "none" THEN ev.fail
    ELSE IF ev.status \div 100 # 2 THEN "HTTPStatusError"
    ELSE "none"

\* the except clauses of get_data, in their order
Translate(exc, ev, a) ==
    IF "ReadTimeout" \in Bases(exc)
      THEN Raise("TimeoutError", "API request timed out")
    ELSE IF "HTTPStatusError" \in Bases(exc)
      THEN RaiseWith("RuntimeError", "API request failed with status code", ev.status, NoUrl)
    ELSE IF "RequestError" \in Bases(exc)
      THEN RaiseWith("RuntimeError", "A connectivity error occurred while requesting", 0,
                     GET_DATA(a.ra, a.dec))
    ELSE Raise(exc, "")

\* Response(**d) as a call: the instance, or ValidationError
Construct(d) ==
    IF ResponseValid(d)
      THEN [raised |-> NoRaise, returned |-> [kind |-> "Response", value |-> Response(d)]]
      ELSE [raised |-> Raise("ValidationError", "Response"), returned |-> Nothing]

\* get_data(ra, dec, timeout) against a service that answers with event ev and
\* body d: what is raised or returned, and the number of HTTP requests issued
get_data(a, ev, d) ==
    IF ~GetDataArgsValid(a)
      THEN [raised |-> Raise("ValidationError", "get_data arguments"),
            returned |-> Nothing, requests |-> 0]
    ELSE IF HttpRaises(ev) # "none"
      THEN [raised |-> Translate(HttpRaises(ev), ev, a), returned |-> Nothing, requests |-> 1]
    ELSE [raised |-> Construct(d).raised, returned |-> Construct(d).returned, requests |-> 1]

\* get_data_from_json(filepath): FilePath requires an existing file
get_data_from_json(exists, d) ==
    IF ~exists
      THEN [raised |-> Raise("ValidationError", "get_data_from_json arguments"),
            returned |-> Nothing]
      ELSE Construct(d)

----------------------------------------------------------------------------
(* Inputs                                                                  *)

\* at most MaxCatalogs catalog entries and at most MaxRows rows in a document
MaxCatalogs == 2
MaxRows == 2

RawRow(f, n, fe, ne, name, ad, st, sp, info, other) ==
    [Frequency |-> f, Nufnu |-> n, FrequencyError |-> fe, NufnuError |-> ne,
     Name |-> name, AngularDistance |-> ad, StartTime |-> st, StopTime |-> sp,
     Info |-> info, Other |-> other]

\* a plain measurement, a measurement with every optional field, a
\* warning-only row and an empty row
Full1 == RawRow(Num(1), Num(-3), Num(0), Num(1), Absent, Absent, Absent, Absent, Absent, Absent)
Full2 == RawRow(Num(2), Num(4), Num(1), Num(2), Str("3C 273"), Num(0), Num(5), Null,
                Str("Upper Limit"), Num(9))
Stub  == RawRow(Absent, Absent, Absent, Absent, Absent, Absent, Absent, Absent,
                Str("Upper Limit"), Absent)
Empty == RawRow(Absent, Absent, Absent, Absent, Absent, Absent, Absent, Absent, Absent, Absent)

\* rows that every catalog may hold
GoodRows == {Full1, Full2, Stub}

\* rows that are neither: a measurement with one field out of its domain, of
\* the wrong type or missing, and warning-only rows with an odd Info
OddRows ==
    {[Full1 EXCEPT !.Frequency = v] : v \in {Num(0), Num(-1), Str("x"), Null}}
    \cup {[Full1 EXCEPT !.FrequencyError = Num(-1)],
          [Full1 EXCEPT !.AngularDistance = Num(-1)],
          [Full2 EXCEPT !.StartTime = Num(-1)],
          [Full2 EXCEPT !.StopTime = Num(-1)],
          [Full2 EXCEPT !.StartTime = PosInf],
          [Full2 EXCEPT !.Nufnu = Absent],
          [Full1 EXCEPT !.Info = Num(7)],
          Empty,
          [Empty EXCEPT !.Other = Num(9)],
          [Empty EXCEPT !.Info = Null],
          [Empty EXCEPT !.Info = Num(7)]}

RawRows == GoodRows \cup OddRows

\* the catalog descriptors, by position in the document
CatalogPool(i) ==
    [CatalogName |-> Str(<<"A", "B", "C", "D">>[i]),
     ErrorRadius |-> Num(<<5, 0, 7, 5>>[i])]

\* the lists of c catalog entries, the i-th being catalog number first + i - 1,
\* that hold at most budget rows in all, each row drawn from rowset
RECURSIVE CatalogLists(_, _, _, _)
CatalogLists(c, budget, first, rowset) ==
    IF c = 0 THEN {<<>>}
    ELSE UNION {
           {<<[Catalog |-> CatalogPool(first), SourceData |-> rl]>> \o rest :
                rl \in [1..n -> rowset],
                rest \in CatalogLists(c - 1, budget - n, first + 1, rowset)} :
           n \in 0..budget}

Envelope(status, message, nh, catalogs) ==
    [ResponseInfo |-> [statusCode |-> status, message |-> message],
     Properties |-> [Nh |-> nh],
     Catalogs |-> catalogs]

\* a list of rows with at most one odd row
AtMostOneOdd(rl) == Cardinality({i \in 1..Len(rl) : rl[i] \in OddRows}) <= 1

\* documents that vary the rows: a single catalog holding any rows, at most
\* one of them odd, and the rows every catalog may hold spread over up to
\* MaxCatalogs catalogs
RowDocs ==
    {Envelope(Str("OK"), Null, Num(3), cs) :
        cs \in {l \in CatalogLists(1, MaxRows, 1, RawRows) : AtMostOneOdd(l[1].SourceData)}
               \cup UNION {CatalogLists(c, MaxRows, 1, GoodRows) : c \in 0..MaxCatalogs}}

\* documents that vary the envelope, the properties and the descriptor
EnvelopeDocs ==
    {Envelope(status, message, nh, cs) :
        status \in {Str("OK"), Str("ERROR"), Str("ok"), Str(""), Null, Absent},
        message \in {Absent, Null, Str("no data")},
        nh \in {Num(3), Num(0), Num(-1)},
        cs \in {<<>>, <<[Catalog |-> CatalogPool(1), SourceData |-> <<Full1, Stub>>]>>}}
    \cup
    {Envelope(Str("OK"), Null, Num(3),
              <<[Catalog |-> [CatalogPool(1) EXCEPT !.ErrorRadius = Num(-1)],
                 SourceData |-> <<Full1>>]>>)}

Docs == RowDocs \cup EnvelopeDocs

GetDataCall(ra, dec, timeout) == [ra |-> ra, dec |-> dec, timeout |-> timeout]

\* get_data calls: the documented example, with one argument varied at a time
GetDataArgs ==
    {GetDataCall(ra, Num(-5), Num(30)) :
        ra \in {Num(-1), Num(0), Num(194), Num(359), Num(360), Num(361),
                NaN, PosInf, NegInf, Str("invalid"), Null}}
    \cup {GetDataCall(Num(194), dec, Num(30)) :
        dec \in {Num(-91), Num(-90), Num(90), Num(91), NaN, PosInf, NegInf, Str("invalid")}}
    \cup {GetDataCall(Num(194), Num(-5), timeout) : timeout \in {Num(-1), Num(0), Num(1)}}
    \cup {GetDataCall(Num(360), Num(91), Num(0))}

TransportEvent(fail, status) == [fail |-> fail, status |-> status]
NoEvent == TransportEvent("none", 0)

\* what the network and the service can do to one request
TransportEvents ==
    {TransportEvent(f, 0) : f \in {"ReadTimeout", "ConnectTimeout", "ConnectError"}}
    \cup {TransportEvent("none", st) : st \in {200, 301, 404, 500}}

JetsetCall(z, ul_cl, restframe, data_scale, obj_name) ==
    [z |-> z, ul_cl |-> ul_cl, restframe |-> restframe, data_scale |-> data_scale,
     obj_name |-> obj_name]

\* to_jetset calls: to_jetset(z=0.1) with its defaults, with one argument
\* varied at a time
JetsetArgs ==
    {JetsetCall(z, Num(95), Str("obs"), Str("lin-lin"), Str("new-src")) :
        z \in {Num(-1), Num(0), Num(10), Num(100), Num(101), NaN, PosInf, Str("x")}}
    \cup {JetsetCall(Num(10), ul_cl, Str("obs"), Str("lin-lin"), Str("new-src")) :
        ul_cl \in {Num(-1), Num(0), Num(100), Num(101), NaN}}
    \cup {JetsetCall(Num(10), Num(95), restframe, Str("lin-lin"), Str("new-src")) :
        restframe \in {Str("src"), Str("observed"), Str("source")}}
    \cup {JetsetCall(Num(10), Num(95), Str("obs"), data_scale, Str("new-src")) :
        data_scale \in {Str("log-log"), Str("linear-linear")}}
    \cup {JetsetCall(Num(10), Num(95), Str("obs"), Str("lin-lin"), obj_name) :
        obj_name \in {Str(""), Str("3C 273"), Null}}
    \cup {JetsetCall(Num(101), Num(95), Str("obs"), Str("lin-lin"), Str("")),
          JetsetCall(Num(10), Absent, Absent, Absent, Absent),
          JetsetCall(Absent, Absent, Absent, Absent, Absent)}

\* the calls made on every document: to_jetset(z=0.1), a call with every
\* argument given, and a call with z out of range
PlainJetsetArgs ==
    {JetsetCall(Num(10), Absent, Absent, Absent, Absent),
     JetsetCall(Num(0), Num(100), Str("src"), Str("log-log"), Str("3C 273")),
     JetsetCall(Num(101), Num(95), Str("obs"), Str("lin-lin"), Str("new-src"))}

\* the arguments vary in full over the documents that vary the envelope
\* (with and without rows), the rows vary in full under the plain calls
JetsetArgsFor(d) == IF d \in EnvelopeDocs THEN JetsetArgs ELSE PlainJetsetArgs

----------------------------------------------------------------------------
(* The session                                                             *)

NoCall ==
    [op |-> "none", get_data |-> GetDataCall(Absent, Absent, Absent), event |-> NoEvent,
     exists |-> TRUE,
     to_jetset |-> JetsetCall(Absent, Absent, Absent, Absent, Absent)]

\* the outcomes of to_astropy on the Response held: the latest one and,
\* right after a to_astropy call, the one before it and whether another
\* projection ran between the two
NoTables == [prev |-> Nothing, between |-> FALSE, last |-> Nothing]

OtherProjections == {"is_successful", "to_dict", "to_json", "to_jetset"}

\* a projection other than to_astropy ran
OtherProjection == tables' = [NoTables EXCEPT !.last = tables.last]

Init ==
    /\ doc \in Docs
    /\ response = <<>>
    /\ call = NoCall
    /\ raised = NoRaise
    /\ returned = Nothing
    /\ requests = 0
    /\ astropyCalls = 0
    /\ tables = NoTables

\* response = get_data(ra, dec, timeout)
GetData ==
    \E a \in GetDataArgs :
      \E ev \in (IF GetDataArgsValid(a) THEN TransportEvents ELSE {NoEvent}) :
        LET out == get_data(a, ev, doc)
        IN  /\ call' = [NoCall EXCEPT !.op = "get_data", !.get_data = a, !.event = ev]
            /\ raised' = out.raised
            /\ returned' = out.returned
            /\ requests' = out.requests
            /\ response' = IF out.returned.kind = "Response"
                             THEN <<out.returned.value>> ELSE response
            /\ astropyCalls' = 0
            /\ tables' = IF out.returned.kind = "Response" THEN NoTables ELSE tables
            /\ UNCHANGED doc

\* response = get_data_from_json(filepath)
GetDataFromJson ==
    \E exists \in BOOLEAN :
        LET out == get_data_from_json(exists, doc)
        IN  /\ call' = [NoCall EXCEPT !.op = "get_data_from_json", !.exists = exists]
            /\ raised' = out.raised
            /\ returned' = out.returned
            /\ requests' = 0
            /\ response' = IF out.returned.kind = "Response"
                             THEN <<out.returned.value>> ELSE response
            /\ astropyCalls' = 0
            /\ tables' = IF out.returned.kind = "Response" THEN NoTables ELSE tables
            /\ UNCHANGED doc

\* response.is_successful()
IsSuccessful ==
    /\ response # <<>>
    /\ call' = [NoCall EXCEPT !.op = "is_successful"]
    /\ raised' = NoRaise
    /\ returned' = [kind |-> "bool", value |-> is_successful(response[1])]
    /\ requests' = 0
    /\ astropyCalls' = 0
    /\ response' = <<Projected(response[1])>>
    /\ OtherProjection
    /\ UNCHANGED doc

\* response.to_dict()
ToDict ==
    /\ response # <<>>
    /\ call' = [NoCall EXCEPT !.op = "to_dict"]
    /\ raised' = NoRaise
    /\ returned' = to_dict(response[1])
    /\ requests' = 0
    /\ astropyCalls' = 0
    /\ response' = <<Projected(response[1])>>
    /\ OtherProjection
    /\ UNCHANGED doc

\* response.to_json()
ToJson ==
    /\ response # <<>>
    /\ call' = [NoCall EXCEPT !.op = "to_json"]
    /\ raised' = NoRaise
    /\ returned' = to_json(response[1])
    /\ requests' = 0
    /\ astropyCalls' = 0
    /\ response' = <<Projected(response[1])>>
    /\ OtherProjection
    /\ UNCHANGED doc

\* response.to_astropy()
ToAstropy ==
    /\ response # <<>>
    /\ LET out == to_astropy(response[1])
       IN  /\ raised' = IF IsRaise(out) THEN out ELSE NoRaise
           /\ returned' = IF IsRaise(out) THEN Nothing ELSE out
           /\ tables' = [prev |-> tables.last,
                         between |-> tables.last # Nothing /\ call.op \in OtherProjections,
                         last |-> out]
    /\ call' = [NoCall EXCEPT !.op = "to_astropy"]
    /\ requests' = 0
    /\ astropyCalls' = 1
    /\ response' = <<Projected(response[1])>>
    /\ UNCHANGED doc

\* response.to_jetset(z, ul_cl, restframe, data_scale, obj_name)
ToJetset ==
    /\ response # <<>>
    /\ \E a \in JetsetArgsFor(doc) :
        LET out == to_jetset(response[1], a)
        IN  /\ raised' = IF IsRaise(out) THEN out ELSE NoRaise
            /\ returned' = IF IsRaise(out) THEN Nothing ELSE out
            /\ call' = [NoCall EXCEPT !.op = "to_jetset", !.to_jetset = a]
            /\ astropyCalls' = JetsetAstropyCalls(a)
    /\ requests' = 0
    /\ response' = <<Projected(response[1])>>
    /\ OtherProjection
    /\ UNCHANGED doc

\* the schema, the table projector and the adapter, over every document
Next ==
    \/ GetDataFromJson
    \/ IsSuccessful
    \/ ToDict
    \/ ToJson
    \/ ToAstropy
    \/ ToJetset

Spec == Init /\ [][Next]_vars

\* the transport shim and the loaders, over the documents that vary the
\* envelope
InitTransport == Init /\ doc \in EnvelopeDocs

NextTransport ==
    \/ GetData
    \/ GetDataFromJson
    \/ IsSuccessful

SpecTransport == InitTransport /\ [][NextTransport]_vars

----------------------------------------------------------------------------
(* Properties                                                              *)

\* the last call built (or tried to build) a Response from the document
Loaded ==
    \/ call.op = "get_data_from_json" /\ call.exists
    \/ call.op = "get_data" /\ requests = 1 /\ HttpRaises(call.event) = "none"

Constructed == Loaded /\ raised = NoRaise /\ returned.kind = "Response"
Rejected == Loaded /\ raised.exc = "ValidationError" /\ returned = Nothing

\* every raw row of the document
DocRows(d) ==
    {d.Catalogs[i].SourceData[j] : <<i, j>> \in
        {p \in (1..Len(d.Catalogs)) \X (1..MaxRows + 1) :
            p[2] <= Len(d.Catalogs[p[1]].SourceData)}}

\* the declared domain of each Measurement field
InDomain(f, v) ==
    CASE f = "Frequency" -> v.k = "num" /\ v.n > 0
      [] f = "FrequencyError" -> v.k = "num" /\ v.n >= 0
      [] f \in {"Nufnu", "NufnuError"} -> v.k = "num"
      [] f \in {"AngularDistance", "StartTime", "StopTime"} ->
           v.k = "null" \/ (v.k = "num" /\ v.n >= 0)
      [] f \in {"Name", "Info"} -> v.k \in {"null", "str"}

\* the row carries a Measurement field that is out of its domain or mistyped
OutOfDomain(row) ==
    \E i \in 1..Len(DataFields) :
        row[DataFields[i]].k # "absent" /\ ~InDomain(DataFields[i], row[DataFields[i]])

\* C1 (as claimed): a document holding a row with a Measurement field out of
\* its declared domain or of the wrong type is rejected as a whole: no
\* Response is built from it.
C1_OutOfDomainRowRejects ==
    (Loaded /\ \E row \in DocRows(doc) : OutOfDomain(row)) => Rejected

\* the document is valid but for its rows
EnvelopeValid(d) ==
    /\ ResponseInfoValid(d.ResponseInfo)
    /\ PropertiesValid(d.Properties)
    /\ \A i \in 1..Len(d.Catalogs) : CatalogValid(d.Catalogs[i].Catalog)

\* the outcome the row resolver is said to give a raw row
RequiredPresentAndValid(row) ==
    \A f \in {"Frequency", "Nufnu", "FrequencyError", "NufnuError"} :
        row[f].k # "absent" /\ InDomain(f, row[f])

SaidOutcome(row) ==
    IF RequiredPresentAndValid(row) /\ ~OutOfDomain(row) THEN "SourceData"
    ELSE IF row.Info.k = "str" THEN "UpperLimits"
    ELSE "invalid"

\* C2 (as claimed): each raw row decodes to exactly one outcome: Measurement
\* when its required fields are present and valid, else WarningStub when it
\* carries an Info string, else the construction fails (an empty row, a row
\* with only unrelated keys).
C2_RowResolver ==
    (Loaded /\ EnvelopeValid(doc)) =>
      IF \E row \in DocRows(doc) : SaidOutcome(row) = "invalid"
        THEN Rejected
        ELSE /\ Constructed
             /\ \A i \in 1..Len(doc.Catalogs) :
                  \A j \in 1..Len(doc.Catalogs[i].SourceData) :
                    returned.value.Catalogs[i].SourceData[j].cls
                      = SaidOutcome(doc.Catalogs[i].SourceData[j])

\* the positions <<catalog, row>> of the Measurement rows of a Response
MeasurementPositions(r) ==
    {p \in (1..Len(r.Catalogs)) \X (1..MaxRows + 1) :
        /\ p[2] <= Len(r.Catalogs[p[1]].SourceData)
        /\ r.Catalogs[p[1]].SourceData[p[2]].cls = "SourceData"}

StubPositions(r) ==
    {p \in (1..Len(r.Catalogs)) \X (1..MaxRows + 1) :
        /\ p[2] <= Len(r.Catalogs[p[1]].SourceData)
        /\ r.Catalogs[p[1]].SourceData[p[2]].cls = "UpperLimits"
        /\ IsStr(r.Catalogs[p[1]].SourceData[p[2]].Info)}

\* C3 (as claimed): to_astropy returns a table with as many rows as there
\* are Measurement rows in the Response, and a Response that holds
\* WarningStub rows never makes it raise.
C3_RowCount ==
    call.op = "to_astropy" =>
      /\ returned.kind = "Table" =>
           Len(returned.rows) = Cardinality(MeasurementPositions(response[1]))
      /\ StubPositions(response[1]) # {} => raised = NoRaise /\ returned.kind = "Table"

\* the walk order: catalogs in list order, rows in list order within each
Before(p, q) == p[1] < q[1] \/ (p[1] = q[1] /\ p[2] <= q[2])
Rank(p, P) == Cardinality({q \in P : Before(q, p)})

\* a cell holds the value, a missing value being NaN or the text None
Holds(cell, v) == IF v.k = "null" THEN cell \in {NaN, Str("None")} ELSE cell = v

\* C4: the k-th row of the table of to_astropy holds the fields of the k-th
\* Measurement in walk order, and its CatalogName and ErrorRadius are those of
\* the catalog entry that holds that Measurement.
C4_OrderAndCatalog ==
    (call.op = "to_astropy" /\ returned.kind = "Table") =>
      LET r == response[1]
          P == MeasurementPositions(r)
      IN  /\ Len(returned.rows) = Cardinality(P)
          /\ \A p \in P :
               LET out == returned.rows[Rank(p, P)]
                   sd == r.Catalogs[p[1]].SourceData[p[2]]
                   cat == r.Catalogs[p[1]].Catalog
               IN  \A c \in 1..Len(returned.colnames) :
                     IF returned.colnames[c] \in {"CatalogName", "ErrorRadius"}
                       THEN out[c] = cat[returned.colnames[c]]
                       ELSE Holds(out[c], sd[returned.colnames[c]])

\* C4 witness: a table of two Measurements taken from two different catalogs
C4_Witness ==
    /\ call.op = "to_astropy" /\ returned.kind = "Table"
    /\ Len(returned.rows) = 2
    /\ returned.rows[1][10] # returned.rows[2][10]

\* C5 (as claimed): for every valid Response, also one with no Measurement
\* row, to_astropy returns a table whose columns are exactly Name, Frequency,
\* Nufnu, FrequencyError, NufnuError, AngularDistance, StartTime, StopTime,
\* Info, Catalog, ErrorRadius, in this order, with their types and units.
C5_FixedColumns ==
    call.op = "to_astropy" =>
      /\ returned.kind = "Table"
      /\ returned.colnames = <<"Name", "Frequency", "Nufnu", "FrequencyError", "NufnuError",
                               "AngularDistance", "StartTime", "StopTime", "Info",
                               "Catalog", "ErrorRadius">>
      /\ returned.dtypes = <<"str", "float64", "float64", "float64", "float64",
                             "float64", "float64", "float64", "str", "str", "float64">>
      /\ returned.units = <<"", "Hz", "erg / (cm2 s)", "Hz", "erg / (cm2 s)",
                            "arcsec", "d", "d", "", "", "arcsec">>

\* the document is valid but, perhaps, for its status code
OtherwiseValid(d) == ResponseValid([d EXCEPT !.ResponseInfo.statusCode = Str("OK")])

\* C6: a document whose statusCode is any string, and which is otherwise
\* valid, builds a Response through get_data and through
\* get_data_from_json, and is_successful() is true exactly when the
\* statusCode is "OK", whatever the message, the properties and the catalogs.
C6_StatusOnly ==
    /\ (Loaded /\ IsStr(doc.ResponseInfo.statusCode) /\ OtherwiseValid(doc)) => Constructed
    /\ call.op = "is_successful" =>
         /\ raised = NoRaise
         /\ returned.value = (doc.ResponseInfo.statusCode.k = "str"
                              /\ doc.ResponseInfo.statusCode.s = "OK")

\* C6 witness: is_successful() answers false on a Response that get_data
\* built from a document whose statusCode is not "OK"
C6_Witness ==
    /\ call.op = "is_successful"
    /\ returned.value = FALSE
    /\ response # <<>>
    /\ response[1].ResponseInfo.statusCode = Str("ERROR")
    /\ response[1].Catalogs # <<>>

\* the arguments of get_data lie in their documented ranges
ArgsInRange(a) ==
    /\ a.ra.k = "num" /\ a.ra.n >= 0 /\ a.ra.n < 360
    /\ a.dec.k = "num" /\ a.dec.n >= -90 /\ a.dec.n <= 90
    /\ a.timeout.k = "num" /\ a.timeout.n > 0

\* C7: a call of get_data issues no HTTP request when its arguments are
\* invalid (it raises ValidationError first) and exactly one otherwise,
\* whatever becomes of that request.
C7_RequestCount ==
    call.op = "get_data" =>
      IF ArgsInRange(call.get_data)
        THEN requests = 1
        ELSE requests = 0 /\ raised.exc = "ValidationError" /\ returned = Nothing

\* C7 witness: get_data(ra=360.0, ...) was rejected without a request
C7_Witness ==
    /\ call.op = "get_data"
    /\ call.get_data.ra = Num(360)
    /\ DecValid(call.get_data.dec)
    /\ requests = 0
    /\ raised.exc = "ValidationError"

\* C8 (as claimed): a request that timed out, while connecting or while
\* reading, surfaces as the timeout error; a non-2xx status as the request
\* failure carrying the status code; a network failure as the connection
\* failure carrying the URL; and none of them returns a Response.
C8_ThreeKinds ==
    (call.op = "get_data" /\ requests = 1) =>
      /\ call.event.fail \in {"ReadTimeout", "ConnectTimeout"} =>
           raised.exc = "TimeoutError" /\ returned = Nothing
      /\ (call.event.fail = "none" /\ call.event.status \notin 200..299) =>
           /\ raised.exc = "RuntimeError"
           /\ raised.about = "API request failed with status code"
           /\ raised.code = call.event.status
           /\ returned = Nothing
      /\ call.event.fail = "ConnectError" =>
           /\ raised.exc = "RuntimeError"
           /\ raised.about = "A connectivity error occurred while requesting"
           /\ raised.url = GET_DATA(call.get_data.ra, call.get_data.dec)
           /\ returned = Nothing

\* a number of the closed interval [0, 1], in hundredths
InUnitInterval(v) == v.k = "num" /\ v.n >= 0 /\ v.n <= 100

C10_EmptyNameRejected ==
    (call.op = "to_jetset" /\ call.to_jetset.obj_name = Str("")) =>
      raised # NoRaise /\ returned = Nothing /\ astropyCalls = 0

\* the value a table's metadata holds under a key
MetaValue(t, key) == (CHOOSE m \in {t.meta[i] : i \in 1..Len(t.meta)} : m.key = key).value

\* the other arguments of a to_jetset call are acceptable
OthersAccepted(a) ==
    /\ InUnitInterval(a.z)
    /\ a.ul_cl = Absent \/ InUnitInterval(a.ul_cl)
    /\ a.obj_name.k \in {"absent", "str"}

\* what C11 says of one enumerated argument: a value outside its set is
\* rejected, and the table's metadata carries the value given, or the default
\* when the argument was omitted
EnumContract(arg, values, default, key) ==
    /\ (arg # Absent /\ arg \notin values) =>
          raised.exc = "ValidationError" /\ returned = Nothing
    /\ returned.kind = "Table" =>
          MetaValue(returned, key) = IF arg = Absent THEN default ELSE arg

\* what C11 says of the two enumerated arguments together, for given sets of
\* values and defaults
EnumsContract(frames, frame, scales, scale) ==
    call.op = "to_jetset" =>
      LET a == call.to_jetset
      IN  /\ EnumContract(a.restframe, frames, frame, "restframe")
          /\ EnumContract(a.data_scale, scales, scale, "data_scale")
          /\ (/\ OthersAccepted(a)
              /\ a.restframe \in frames \cup {Absent}
              /\ a.data_scale \in scales \cup {Absent}) =>
                raised.exc # "ValidationError"

\* C11 (as claimed): restframe is accepted if and only if it is "observed" or
\* "source" and defaults to "observed"; data_scale if and only if it is
\* "linear-linear" or "log-log" and defaults to "linear-linear"; the values
\* appear verbatim in the metadata.
C11_AsClaimed ==
    EnumsContract({Str("observed"), Str("source")}, Str("observed"),
                  {Str("linear-linear"), Str("log-log")}, Str("linear-linear"))

\* C11 (amended): restframe is accepted if and only if it is "obs" or "src"
\* and defaults to "obs"; data_scale if and only if it is "lin-lin" or
\* "log-log" and defaults to "lin-lin"; any other string is rejected; the
\* metadata of every table returned carries the values verbatim.
C11_Enums ==
    EnumsContract({Str("obs"), Str("src")}, Str("obs"),
                  {Str("lin-lin"), Str("log-log")}, Str("lin-lin"))

\* C11 witness: to_jetset(z=0.1, restframe="src") returned a table whose
\* metadata says restframe "src" and data_scale "lin-lin"
C11_Witness ==
    /\ call.op = "to_jetset"
    /\ call.to_jetset.restframe = Str("src")
    /\ returned.kind = "Table"
    /\ MetaValue(returned, "restframe") = Str("src")
    /\ MetaValue(returned, "data_scale") = Str("lin-lin")

\* the rename map of C12, with the source columns under the names the
\* registry gives them, and the unit C12 states for each new column
RenameMap ==
    {<<FREQUENCY.name, "x", "Hz">>, <<FREQUENCY_ERROR.name, "dx", "Hz">>,
     <<NUFNU.name, "y", "erg / (cm2 s)">>, <<NUFNU_ERROR.name, "dy", "erg / (cm2 s)">>,
     <<START_TIME.name, "T_start", "d">>, <<STOP_TIME.name, "T_stop", "d">>,
     <<CATALOG.name, "dataset", "">>}

HasColumn(t, name) == \E c \in 1..Len(t.colnames) : t.colnames[c] = name

\* the renamed columns whose values are copied as they are
CopiedColumns == {m \in RenameMap : m[2] \notin {"T_start", "T_stop"}}

\* C12: a table returned by to_jetset holds every column of the rename map
\* under its new name, each with the unit of its source column in the flat
\* table (Hz for x and dx, erg cm^-2 s^-1 for y and dy, day for T_start and
\* T_stop), and has the rows of to_astropy, as many and in the same order.
C12_RenameKeepsUnits ==
    (call.op = "to_jetset" /\ returned.kind = "Table") =>
      LET t == to_astropy(response[1])
      IN  /\ \A m \in RenameMap :
                /\ HasColumn(returned, m[2])
                /\ returned.units[ColIndex(returned, m[2])] = t.units[ColIndex(t, m[1])]
                /\ returned.units[ColIndex(returned, m[2])] = m[3]
          /\ Len(returned.rows) = Len(t.rows)
          /\ \A i \in 1..Len(t.rows) : \A m \in CopiedColumns :
                returned.rows[i][ColIndex(returned, m[2])] = t.rows[i][ColIndex(t, m[1])]

\* the part of C12 that does hold: the four flux columns and dataset keep
\* unit and values, and the rows are those of to_astropy in order
C12_CopiedColumnsOnly ==
    (call.op = "to_jetset" /\ returned.kind = "Table") =>
      LET t == to_astropy(response[1])
      IN  /\ \A m \in CopiedColumns :
                /\ HasColumn(returned, m[2])
                /\ returned.units[ColIndex(returned, m[2])] = m[3]
          /\ Len(returned.rows) = Len(t.rows)
          /\ \A i \in 1..Len(t.rows) : \A m \in CopiedColumns :
                returned.rows[i][ColIndex(returned, m[2])] = t.rows[i][ColIndex(t, m[1])]

\* The case of C13 never arises: to_jetset takes no table, it adapts the
\* table its own to_astropy call builds, and that table holds every source
\* column of the rename map.
C13_SourceColumnsPresent ==
    (call.op = "to_jetset" /\ astropyCalls = 1 /\ ~IsRaise(to_astropy(response[1]))) =>
        \A m \in RenameMap : HasColumn(to_astropy(response[1]), m[1])

\* the Measurement rows of a Response that satisfy a condition
MeasurementsWith(r, P(_)) ==
    {p \in MeasurementPositions(r) : P(r.Catalogs[p[1]].SourceData[p[2]])}

SaysUpperLimit(row) == row.Info = Str("Upper Limit")

\* C14: in every table to_jetset returns, the UL column is boolean, has one
\* entry per row (one row per Measurement) and every entry is False, whatever
\* the Info text of the rows and however many WarningStub rows there are.
C14_ULAlwaysFalse ==
    (call.op = "to_jetset" /\ returned.kind = "Table") =>
      /\ HasColumn(returned, "UL")
      /\ returned.dtypes[ColIndex(returned, "UL")] = "bool"
      /\ Len(returned.rows) = Cardinality(MeasurementPositions(response[1]))
      /\ \A i \in 1..Len(returned.rows) :
            /\ Len(returned.rows[i]) = Len(returned.colnames)
            /\ returned.rows[i][ColIndex(returned, "UL")] = Bool(FALSE)

\* C14 witness: to_jetset returned a table for a Response that holds a
\* WarningStub row and a Measurement whose Info is "Upper Limit"
C14_Witness ==
    /\ call.op = "to_jetset" /\ returned.kind = "Table"
    /\ StubPositions(response[1]) # {}
    /\ MeasurementsWith(response[1], SaysUpperLimit) # {}
    /\ Len(returned.rows) >= 1
    /\ \A i \in 1..Len(returned.rows) :
          returned.rows[i][ColIndex(returned, "UL")] = Bool(FALSE)

\* the k-th Measurement of a Response in walk order
MeasurementAt(r, k) ==
    LET p == CHOOSE q \in MeasurementPositions(r) : Rank(q, MeasurementPositions(r)) = k
    IN  r.Catalogs[p[1]].SourceData[p[2]]

\* what C15 says a time bound is emitted as
EmittedTime(v) == IF v \in {Absent, Null} THEN Num(0) ELSE v

\* C15 (as claimed): in every table to_jetset returns, T_start and T_stop
\* never hold NaN: the row of a Measurement whose StartTime (StopTime) is
\* absent holds 0.0, and the row of one whose StartTime (StopTime) is present
\* holds that value unchanged.
C15_TimesNeverNaN ==
    (call.op = "to_jetset" /\ returned.kind = "Table") =>
      \A i \in 1..Len(returned.rows) :
        LET m == MeasurementAt(response[1], i)
            start == returned.rows[i][ColIndex(returned, "T_start")]
            stop == returned.rows[i][ColIndex(returned, "T_stop")]
        IN  /\ start # NaN /\ stop # NaN
            /\ start = EmittedTime(m.StartTime)
            /\ stop = EmittedTime(m.StopTime)

\* the part of C15 that does hold: no NaN is emitted, an absent bound is
\* emitted as 0.0 and a finite bound as it is
C15_FiniteTimes ==
    (call.op = "to_jetset" /\ returned.kind = "Table") =>
      \A i \in 1..Len(returned.rows) :
        LET m == MeasurementAt(response[1], i)
            start == returned.rows[i][ColIndex(returned, "T_start")]
            stop == returned.rows[i][ColIndex(returned, "T_stop")]
        IN  /\ start # NaN /\ stop # NaN
            /\ m.StartTime.k \in {"absent", "null", "num"} => start = EmittedTime(m.StartTime)
            /\ m.StopTime.k \in {"absent", "null", "num"} => stop = EmittedTime(m.StopTime)

====
